---- MODULE Spec2Model ----
(***************************************************************************)
(* Model of the session builder of the nexus flashcard tool                *)
(* (src/src/lib/session.ts) and of the card pools it is called on.         *)
(*                                                                         *)
(* A card is the scheduling view of a row of the cards table:              *)
(*   [id, confidence_score, last_seen_at].                                 *)
(* buildSession is a pure function of (cards, intensity); the actions      *)
(* below apply it to pools drawn by the initial predicates.                *)
(*                                                                         *)
(* The review loop (src/src/components/Reviewer.tsx) and its callers in    *)
(* DeckView.tsx are modelled as event handlers over the component state;   *)
(* the database (src/src/db/index.ts) serves its requests in the order in  *)
(* which they were issued.                                                 *)
(***************************************************************************)
EXTENDS Integers, Sequences, FiniteSets, TLC

VARIABLES
    store,      \* the cards table: card id -> [confidence_score, last_seen_at]
    cards,      \* the pool handed to buildSession (rows returned by getCardsForDeck)
    intensity,  \* the requested session size
    taken,      \* <<low, medium, mastered>> slices of the last call, before truncation
    queue,      \* the session queue returned by the last call
    pc,         \* "idle" before the call, "built" after it
    view,       \* what is rendered: "deck", "session" (Reviewer), "summary" or "crashed"
    session,    \* number of Reviewer instances mounted so far; the current one is the last
    currentIndex, \* Reviewer state: 0-based cursor into the queue
    isFlipped,  \* Reviewer state: TRUE while the back side is showing
    resultsRef, \* resultsRef.current of every Reviewer instance, by session number
    sessionResults, \* DeckView state: the results handed to the summary, << >> for null
    pending,    \* database requests issued and not yet answered, oldest first
    now,        \* the last value Date.now() returned
    calls,      \* history: the updateConfidence calls issued
    completed,  \* history: the onSessionComplete invocations
    exited,     \* history: the sessions on which Exit was taken
    failed,     \* history: the updateConfidence calls that were rejected, by call number
    reveals,    \* history: Reveal events since the current card was presented
    ignored,    \* history: a grade key was pressed in this session with the front showing
    weightedAvg, \* SessionSummary: the quality percentage it renders, -1 before it rendered
    db          \* the tables deck_groups, decks, notes and cards with their id
                \* sequences, and the addCard call that is between two statements

reviewVars == << view, session, currentIndex, isFlipped, resultsRef, sessionResults,
                 pending, now, calls, completed, exited, failed, reveals, ignored >>

\* the state of the deck view and of the Reviewer it mounts
sessionVars == << store, cards, intensity, taken, queue, pc, view, session, currentIndex,
                  isFlipped, resultsRef, sessionResults, pending, now, calls, completed,
                  exited, failed, reveals, ignored >>

vars == << sessionVars, weightedAvg, db >>

\* ------------------------------------------------------------------------
\* Bounds of the model
\* ------------------------------------------------------------------------
MaxCards == 3           \* pool size of the general specification
MaxTime == 3            \* latest grading timestamp of the general specification
MaxIntensity == 6       \* largest intensity of the general specification
MaxFreshCards == 10     \* pool size of the fresh-deck specification
MaxFreshIntensity == 10 \* largest intensity of the fresh-deck specification
MaxTierCards == 6       \* pool size of the tiered specification
MaxTierSteps == 2       \* the tiered specification uses intensities 5, 10, ..., 5 * MaxTierSteps
MaxReviewCards == 2     \* cards added in the review specification
MaxSessions == 1        \* sessions started in the review specification
MaxCalls == 2           \* grades handled in the review specification
MaxReveals == 2         \* Reveal events per presented card in the review specification
MaxLauncherCards == 7   \* deck size of the launcher specification
MaxSummaryEvents == 8   \* grade events of the summary specification
MaxQuotaIntensity == 100 \* largest intensity of the quota specification
MaxGroups == 1          \* deck groups created in the table specification
MaxDecks == 2           \* decks created in the table specification
MaxNotes == 2           \* note ids drawn in the table specification
MaxQuotaCards == 7      \* pool size of the quota specification

Min(a, b) == IF a <= b THEN a ELSE b
Max(a, b) == IF a >= b THEN a ELSE b

\* ------------------------------------------------------------------------
\* IEEE-754 double arithmetic, as far as Math.round(intensity * 0.60) needs it.
\* A non-negative number is a little-endian sequence of bits (index 1 is the
\* least significant bit) together with a binary exponent e: value = bits * 2^-e.
\* ------------------------------------------------------------------------
HexDigitBits(h) == << h % 2, (h \div 2) % 2, (h \div 4) % 2, (h \div 8) % 2 >>

RECURSIVE HexToBits(_)
\* hex digits, most significant first -> bits, least significant first
HexToBits(hs) ==
    IF hs = << >> THEN << >>
    ELSE HexToBits(Tail(hs)) \o HexDigitBits(Head(hs))

RECURSIVE BitsToInt(_)
BitsToInt(bits) ==
    IF bits = << >> THEN 0 ELSE Head(bits) + 2 * BitsToInt(Tail(bits))

RECURSIVE MulBits(_, _, _)
\* exact product of the number `bits` and the small natural n (plus carry)
MulBits(bits, n, carry) ==
    IF bits = << >>
    THEN IF carry = 0 THEN << >>
         ELSE << carry % 2 >> \o MulBits(<< >>, n, carry \div 2)
    ELSE LET t == n * Head(bits) + carry
         IN  << t % 2 >> \o MulBits(Tail(bits), n, t \div 2)

\* index of the most significant 1 bit, 0 for the number zero
BitLen(bits) ==
    IF \E k \in DOMAIN bits : bits[k] = 1
    THEN CHOOSE k \in DOMAIN bits :
            bits[k] = 1 /\ \A j \in DOMAIN bits : j > k => bits[j] = 0
    ELSE 0

RECURSIVE AddBit(_, _)
\* bits + 2^(pos-1)
AddBit(bits, pos) ==
    IF pos > Len(bits)
    THEN bits \o [k \in 1..(pos - Len(bits)) |-> IF k = pos - Len(bits) THEN 1 ELSE 0]
    ELSE IF bits[pos] = 0
         THEN [bits EXCEPT ![pos] = 1]
         ELSE AddBit([bits EXCEPT ![pos] = 0], pos + 1)

DoublePrecision == 53

\* round an exact product to the nearest double (53 significant bits, ties to even)
RoundToDouble(bits) ==
    LET n == BitLen(bits)
        d == n - DoublePrecision
    IN  IF d <= 0 THEN bits
        ELSE LET roundBit == bits[d]
                 sticky == \E k \in 1..(d - 1) : bits[k] = 1
                 lsb == bits[d + 1]
                 truncated == [k \in 1..Len(bits) |-> IF k <= d THEN 0 ELSE bits[k]]
             IN  IF roundBit = 1 /\ (sticky \/ lsb = 1)
                 THEN AddBit(truncated, d + 1)
                 ELSE truncated

\* Math.round(x) for x = bits * 2^-e >= 0: floor(x + 1/2), ties towards +infinity
MathRound(bits, e) ==
    LET s == AddBit(bits, e)
    IN  BitsToInt(SubSeq(s, e + 1, Len(s)))

\* the double literals of session.ts: mantissa (hex) and exponent
Mant060 == HexToBits(<< 1, 3, 3, 3, 3, 3, 3, 3, 3, 3, 3, 3, 3, 3 >>)   \* 0.60 = 0x13333333333333 * 2^-53
Exp060 == 53
Mant030 == HexToBits(<< 1, 3, 3, 3, 3, 3, 3, 3, 3, 3, 3, 3, 3, 3 >>)   \* 0.30 = 0x13333333333333 * 2^-54
Exp030 == 54
Mant010 == HexToBits(<< 1, 9, 9, 9, 9, 9, 9, 9, 9, 9, 9, 9, 9, 10 >>)  \* 0.10 = 0x1999999999999A * 2^-56
Exp010 == 56

\* Math.round(n * literal) in double arithmetic
RoundedProduct(n, mant, e) == MathRound(RoundToDouble(MulBits(mant, n, 0)), e)

RECURSIVE IntToBits(_)
IntToBits(n) ==
    IF n = 0 THEN << >> ELSE << n % 2 >> \o IntToBits(n \div 2)

RECURSIVE DivStep(_, _, _, _)
\* long division: k more binary digits of r / den behind the digits in acc;
\* the result is << digits, remainder >>
DivStep(r, den, k, acc) ==
    IF k = 0 THEN << acc, r >>
    ELSE IF Len(acc) >= 0 /\ 2 * r >= den
         THEN DivStep(2 * r - den, den, k - 1, << 1 >> \o acc)
         ELSE DivStep(2 * r, den, k - 1, << 0 >> \o acc)

\* fractional binary digits the division works with; the exponent of a quotient
\* is one more because its last bit stands for the digits cut off
DivisionBits == 60
QuotientExp == DivisionBits + 1

\* the number of 0 bits below the lowest 1 bit
TrailingZeros(bits) ==
    IF \E k \in DOMAIN bits : bits[k] = 1
    THEN (CHOOSE k \in DOMAIN bits : bits[k] = 1 /\ \A j \in 1..(k - 1) : bits[j] = 0) - 1
    ELSE 0

\* the double num / den for naturals num and den > 0: value = bits * 2^-exp,
\* with the zero bits at the low end dropped down to an exponent of 1
Quotient(num, den) ==
    LET qr == DivStep(num % den, den, DivisionBits, IntToBits(num \div den))
        sticky == IF qr[2] = 0 THEN 0 ELSE 1
        rounded == RoundToDouble(<< sticky >> \o qr[1])
        z == Min(TrailingZeros(rounded), QuotientExp - 1)
    IN  [bits |-> SubSeq(rounded, z + 1, Len(rounded)), exp |-> QuotientExp - z]

\* ------------------------------------------------------------------------
\* buildSession (src/src/lib/session.ts)
\* ------------------------------------------------------------------------
IsLow_Strict(c) == c.confidence_score < 2
IsLow(c) == c.confidence_score <= 2
IsMedium_Overlap(c) == c.confidence_score >= 2 /\ c.confidence_score <= 4
IsMedium(c) == c.confidence_score = 3 \/ c.confidence_score = 4
IsMastered(c) == c.confidence_score = 5

Compare_Descending(a, b) == b.last_seen_at - a.last_seen_at
\* the comparator (a, b) => a.last_seen_at - b.last_seen_at
Compare(a, b) == a.last_seen_at - b.last_seen_at

RECURSIVE Insert(_, _)
\* insert c into the sorted sequence s behind every element that does not compare greater
Insert(s, c) ==
    IF s = << >> THEN << c >>
    ELSE IF Compare(s[Len(s)], c) <= 0
         THEN Append(s, c)
         ELSE Append(Insert(SubSeq(s, 1, Len(s) - 1), c), s[Len(s)])

RECURSIVE SortFrom(_, _)
SortFrom(sorted, rest) ==
    IF rest = << >> THEN sorted
    ELSE SortFrom(Insert(sorted, Head(rest)), Tail(rest))

\* Array.prototype.sort with the comparator above: a stable sort (ES2019)
Sort(s) == SortFrom(<< >>, s)

Slice_ZeroIsOpen(s, end) ==
    IF end = 0 THEN s ELSE SubSeq(s, 1, Min(end, Len(s)))
\* Array.prototype.slice(0, end)
Slice(s, end) ==
    LET len == Len(s)
        final == IF end < 0 THEN Max(len + end, 0) ELSE Min(end, len)
    IN  SubSeq(s, 1, final)

\* cards.filter(...).sort(...): SelectSeq is Array.prototype.filter
low(pool) == Sort(SelectSeq(pool, IsLow))
medium(pool) == Sort(SelectSeq(pool, IsMedium))
mastered(pool) == Sort(SelectSeq(pool, IsMastered))

\* the intensities of the model; the three products are tabulated over them once
DefaultIntensity == 20
Intensities ==
    0..Max(Max(Max(Max(Max(MaxIntensity, MaxFreshIntensity), 5 * MaxTierSteps),
                   DefaultIntensity),
               MaxLauncherCards),
           MaxQuotaIntensity)
Round060 == [n \in Intensities |-> RoundedProduct(n, Mant060, Exp060)]
Round030 == [n \in Intensities |-> RoundedProduct(n, Mant030, Exp030)]
Round010 == [n \in Intensities |-> RoundedProduct(n, Mant010, Exp010)]

nMastered_AsLow(n) == Round060[n]
nMastered(n) == Round010[n]
nMedium_Floor(n) == (30 * n) \div 100
nMedium(n) == Round030[n]
nLow_AsMedium(n) == Round030[n]
nLow(n) == Round060[n]

\* the three spread operands of the returned array literal
Selected(pool, n) ==
    << Slice(low(pool), nLow(n)),
       Slice(medium(pool), nMedium(n)),
       Slice(mastered(pool), nMastered(n)) >>

Concat_MediumFirst(t) == t[2] \o t[1] \o t[3]
Concat(t) == t[1] \o t[2] \o t[3]

Truncate_FromFront(s, n) == SubSeq(s, Len(s) - Min(n, Len(s)) + 1, Len(s))
Truncate_None(s, n) == s
Truncate(s, n) == Slice(s, n)

buildSession(pool, n) == Truncate(Concat(Selected(pool, n)), n)

\* the queues a call of buildSession can return
BuildOutcomes(pool, n) == { buildSession(pool, n) }

CardsAfterBuild_InPlace(pool) == Sort(pool)
\* the caller's array after the call: filter copies, sort works on the copies
CardsAfterBuild(pool) == pool

\* ------------------------------------------------------------------------
\* Card pools
\* ------------------------------------------------------------------------
Scores == 0..5
Grades == 1..5

\* a card that was never graded (addCard inserts confidence 0, last seen 0)
\* or one graded g at time t (updateConfidence)
Schedules(maxTime) ==
    { [confidence_score |-> 0, last_seen_at |-> 0] } \cup
    { [confidence_score |-> g, last_seen_at |-> t] : g \in Grades, t \in 1..maxTime }

RowsToPool(rows) ==
    [k \in DOMAIN rows |->
        [id |-> k,
         confidence_score |-> rows[k].confidence_score,
         last_seen_at |-> rows[k].last_seen_at]]

StoreOf(pool) ==
    [i \in { pool[k].id : k \in DOMAIN pool } |->
        LET c == CHOOSE c \in { pool[k] : k \in DOMAIN pool } : c.id = i
        IN  [confidence_score |-> c.confidence_score, last_seen_at |-> c.last_seen_at]]

\* an addCard call between two of its statements: the deck, the card type,
\* the cloze template note, the cloze groups still to insert, and the note
\* whose card is inserted next (0: none)
Job(d, type, parentId, groupsLeft, noteId) ==
    [kind |-> type, deck |-> d, parent |-> parentId, left |-> groupsLeft, note |-> noteId]
NoJob == Job(0, "none", 0, 0, 0)

\* the tables after initDB on a fresh database: no rows, every SERIAL at 1
EmptyDb ==
    [groups |-> {}, decks |-> << >>, notes |-> << >>, cards |-> << >>,
     nextGroup |-> 1, nextDeck |-> 1, nextNote |-> 1, nextCard |-> 1, job |-> NoJob]

InitWith(pool, n) ==
    /\ cards = pool
    /\ store = StoreOf(pool)
    /\ intensity = n
    /\ taken = << << >>, << >>, << >> >>
    /\ queue = << >>
    /\ pc = "idle"
    /\ view = "deck"
    /\ session = 0
    /\ currentIndex = 0
    /\ isFlipped = FALSE
    /\ resultsRef = << >>
    /\ sessionResults = << >>
    /\ pending = << >>
    /\ now = 1
    /\ calls = << >>
    /\ completed = << >>
    /\ exited = {}
    /\ failed = {}
    /\ reveals = 0
    /\ ignored = FALSE
    /\ weightedAvg = -1
    /\ db = EmptyDb

\* any pool of up to MaxCards cards, any intensity up to MaxIntensity
Init ==
    \E size \in 0..MaxCards :
        \E rows \in [1..size -> Schedules(MaxTime)], n \in 0..MaxIntensity :
            InitWith(RowsToPool(rows), n)

\* a freshly created deck: no card was ever graded
FreshPool(n) == RowsToPool([k \in 1..n |-> [confidence_score |-> 0, last_seen_at |-> 0]])

InitFresh ==
    \E size \in 0..MaxFreshCards, n \in 0..MaxFreshIntensity : InitWith(FreshPool(size), n)

\* a deck whose graded cards were last reviewed one after the other, the
\* latest-created card first: graded cards carry pairwise distinct timestamps
TierPool(scores) ==
    RowsToPool([k \in DOMAIN scores |->
        [confidence_score |-> scores[k],
         last_seen_at |-> IF scores[k] = 0 THEN 0 ELSE Len(scores) + 1 - k]])

TierIntensities == { 5 * k : k \in 1..MaxTierSteps }

InitTiers ==
    \E size \in 0..MaxTierCards :
        \E scores \in [1..size -> Scores], n \in TierIntensities :
            InitWith(TierPool(scores), n)

\* a deck of a low-tier, b medium-tier and c mastered cards
QuotaPool(a, b, c) ==
    TierPool([k \in 1..(a + b + c) |-> IF k <= a THEN 1 ELSE IF k <= a + b THEN 3 ELSE 5])

\* every intensity the slider can reach, and 0..4, on decks of up to
\* MaxQuotaCards cards of any split over the tiers
InitQuota ==
    \E a, b, c \in 0..MaxQuotaCards, n \in 0..MaxQuotaIntensity :
        /\ a + b + c <= MaxQuotaCards
        /\ InitWith(QuotaPool(a, b, c), n)

\* ------------------------------------------------------------------------
\* Actions
\* ------------------------------------------------------------------------
\* a launcher that mounts the Reviewer whatever the queue
StartRefused_Never(q) == FALSE

\* if (queue.length === 0) return
StartRefused(q) == q = << >>

\* handleStartSession (also reached from the summary's onStudyAgain):
\* const queue = buildSession(cards, intensity); an empty queue starts nothing,
\* otherwise a Reviewer is mounted with its initial state
BuildSession ==
    /\ UNCHANGED << weightedAvg, db >>
    /\ pc = "idle"
    /\ view \in {"deck", "summary"}
    /\ session < MaxSessions
    /\ queue' \in BuildOutcomes(cards, intensity)
    /\ taken' = Selected(cards, intensity)
    /\ cards' = CardsAfterBuild(cards)
    /\ pc' = "built"
    /\ sessionResults' = << >>
    /\ IF StartRefused(queue')
       THEN /\ view' = "deck"
            /\ UNCHANGED << session, currentIndex, isFlipped, resultsRef, reveals, ignored >>
       ELSE /\ view' = "session"
            /\ session' = session + 1
            /\ currentIndex' = 0
            /\ isFlipped' = FALSE
            /\ resultsRef' = Append(resultsRef, << >>)
            /\ reveals' = 0
            /\ ignored' = FALSE
    /\ UNCHANGED << store, intensity, pending, now, calls, completed, exited, failed >>

\* ------------------------------------------------------------------------
\* The card store (src/src/db/index.ts)
\* ------------------------------------------------------------------------
\* the requests the model issues to the database
WriteReq(n, sess, idx, isLast, cid, sc, t) ==
    [kind |-> "write", call |-> n, session |-> sess, index |-> idx, last |-> isLast,
     cardId |-> cid, score |-> sc, at |-> t]
LoadReq ==
    [kind |-> "load", call |-> 0, session |-> 0, index |-> 0, last |-> FALSE,
     cardId |-> 0, score |-> 0, at |-> 0]
InsertReq ==
    [kind |-> "insert", call |-> 0, session |-> 0, index |-> 0, last |-> FALSE,
     cardId |-> 0, score |-> 0, at |-> 0]

\* the update without its WHERE clause
updateConfidence_AllRows(st, cid, sc, t) ==
    [i \in DOMAIN st |-> [st[i] EXCEPT !.confidence_score = sc, !.last_seen_at = t]]

\* UPDATE cards SET confidence_score = $1, last_seen_at = $2 WHERE id = $3
updateConfidence(st, cid, sc, t) ==
    IF cid \in DOMAIN st
    THEN [st EXCEPT ![cid].confidence_score = sc, ![cid].last_seen_at = t]
    ELSE st

\* INSERT INTO cards (note_id, confidence_score, last_seen_at) VALUES ($1, 0, 0)
addCard(st) ==
    LET newId == Cardinality(DOMAIN st) + 1
    IN  [i \in DOMAIN st \cup {newId} |->
            IF i = newId THEN [confidence_score |-> 0, last_seen_at |-> 0] ELSE st[i]]

RECURSIVE RowsFrom(_, _)
RowsFrom(st, ids) ==
    IF ids = {} THEN << >>
    ELSE LET m == CHOOSE i \in ids : \A j \in ids : i <= j
         IN  << [id |-> m,
                 confidence_score |-> st[m].confidence_score,
                 last_seen_at |-> st[m].last_seen_at] >> \o RowsFrom(st, ids \ {m})

\* getCardsForDeck: the rows of the deck, oldest note first
getCardsForDeck(st) == RowsFrom(st, DOMAIN st)

\* ------------------------------------------------------------------------
\* The tables and their foreign keys (initDB). A table is a function from the
\* ids of its rows; group_id 0 stands for NULL. A statement that violates a
\* foreign key is rejected and changes no row; its SERIAL value is used up.
\* ------------------------------------------------------------------------
Restrict(f, ids) == [i \in ids |-> f[i]]

\* INSERT INTO deck_groups (name, created_at) VALUES ($1, $2)
createGroup(t) ==
    [t EXCEPT !.groups = @ \cup {t.nextGroup}, !.nextGroup = @ + 1]

\* DELETE FROM deck_groups WHERE id = $1; decks.group_id is ON DELETE SET NULL
deleteGroup(t, g) ==
    [t EXCEPT !.groups = @ \ {g},
              !.decks = [d \in DOMAIN t.decks |->
                            IF t.decks[d].group_id = g THEN [group_id |-> 0] ELSE t.decks[d]]]

\* UPDATE decks SET group_id = $1 WHERE id = $2; group_id REFERENCES deck_groups(id)
moveDeckToGroup(t, d, g) ==
    IF d \in DOMAIN t.decks /\ (g = 0 \/ g \in t.groups)
    THEN [t EXCEPT !.decks[d].group_id = g]
    ELSE t

\* INSERT INTO decks (name, created_at) VALUES ($1, $2)
createDeck(t) ==
    [t EXCEPT !.decks = [d \in DOMAIN t.decks \cup {t.nextDeck} |->
                            IF d = t.nextDeck THEN [group_id |-> 0] ELSE t.decks[d]],
              !.nextDeck = @ + 1]

\* a delete of the deck row alone
deleteDeck_NoCascade(t, d) ==
    [t EXCEPT !.decks = Restrict(t.decks, DOMAIN t.decks \ {d})]

\* DELETE FROM decks WHERE id = $1; notes.deck_id and cards.note_id are
\* ON DELETE CASCADE
deleteDeck(t, d) ==
    LET keptNotes == { n \in DOMAIN t.notes : t.notes[n].deck_id # d }
    IN  [t EXCEPT !.decks = Restrict(t.decks, DOMAIN t.decks \ {d}),
                  !.notes = Restrict(t.notes, keptNotes),
                  !.cards = Restrict(t.cards,
                                { c \in DOMAIN t.cards : t.cards[c].note_id \in keptNotes })]

\* DELETE FROM notes WHERE id = $1; cards.note_id is ON DELETE CASCADE
deleteNote(t, n) ==
    [t EXCEPT !.notes = Restrict(t.notes, DOMAIN t.notes \ {n}),
              !.cards = Restrict(t.cards,
                            { c \in DOMAIN t.cards : t.cards[c].note_id # n })]

\* deleteCard: SELECT note_id FROM cards WHERE id = $1, then the delete of
\* that note if a row was found
deleteCard(t, c) ==
    IF c \in DOMAIN t.cards THEN deleteNote(t, t.cards[c].note_id) ELSE t

\* INSERT INTO notes (deck_id, card_type, ...); deck_id REFERENCES decks(id)
insertNote(t, d, type) ==
    IF d \in DOMAIN t.decks
    THEN [t EXCEPT !.notes = [n \in DOMAIN t.notes \cup {t.nextNote} |->
                                 IF n = t.nextNote
                                 THEN [deck_id |-> d, card_type |-> type]
                                 ELSE t.notes[n]],
                   !.nextNote = @ + 1]
    ELSE [t EXCEPT !.nextNote = @ + 1]

\* INSERT INTO cards (note_id, confidence_score, last_seen_at) VALUES ($1, 0, 0);
\* note_id REFERENCES notes(id)
insertCard(t, n) ==
    IF n \in DOMAIN t.notes
    THEN [t EXCEPT !.cards = [c \in DOMAIN t.cards \cup {t.nextCard} |->
                                 IF c = t.nextCard
                                 THEN [note_id |-> n, confidence_score |-> 0,
                                       last_seen_at |-> 0]
                                 ELSE t.cards[c]],
                   !.nextCard = @ + 1]
    ELSE [t EXCEPT !.nextCard = @ + 1]

\* ------------------------------------------------------------------------
\* The review loop (src/src/components/Reviewer.tsx) and DeckView.tsx
\* ------------------------------------------------------------------------
\* const card = queue[currentIndex]
CurrentCard == queue[currentIndex + 1]

\* handleAddCard: await addCard(...)
AddCard ==
    /\ UNCHANGED << weightedAvg, db >>
    /\ view = "deck"
    /\ Cardinality(DOMAIN store)
         + Cardinality({ k \in DOMAIN pending : pending[k].kind = "insert" }) < MaxReviewCards
    /\ pending' = Append(pending, InsertReq)
    /\ UNCHANGED << store, cards, intensity, taken, queue, pc, view, session, currentIndex,
                    isFlipped, resultsRef, sessionResults, now, calls, completed, exited,
                    failed, reveals, ignored >>

\* the insert is answered; handleAddCard resumes and calls loadCards()
InsertDone ==
    /\ UNCHANGED << weightedAvg, db >>
    /\ pending # << >>
    /\ Head(pending).kind = "insert"
    /\ store' = addCard(store)
    /\ pending' = Append(Tail(pending), LoadReq)
    /\ UNCHANGED << cards, intensity, taken, queue, pc, view, session, currentIndex,
                    isFlipped, resultsRef, sessionResults, now, calls, completed, exited,
                    failed, reveals, ignored >>

\* loadCards resumes: setCards(result)
LoadDone ==
    /\ UNCHANGED << weightedAvg, db >>
    /\ pending # << >>
    /\ Head(pending).kind = "load"
    /\ cards' = getCardsForDeck(store)
    /\ pc' = "idle"
    /\ pending' = Tail(pending)
    /\ UNCHANGED << store, intensity, taken, queue, view, session, currentIndex,
                    isFlipped, resultsRef, sessionResults, now, calls, completed, exited,
                    failed, reveals, ignored >>

\* a Reveal that only ever turns the back up
Flip_OneWay(f) == TRUE

\* setIsFlipped(f => !f)
Flip(f) == ~f

\* a Reveal that stamps the card as seen
Reveal_MarksSeen ==
    /\ view = "session"
    /\ reveals < MaxReveals
    /\ isFlipped' = Flip(isFlipped)
    /\ reveals' = reveals + 1
    /\ store' = [store EXCEPT ![CurrentCard.id].last_seen_at = now]
    /\ UNCHANGED << cards, intensity, taken, queue, pc, view, session, currentIndex,
                    resultsRef, sessionResults, pending, now, calls, completed, exited,
                    failed, ignored, weightedAvg, db >>

\* Space key or click on the card
Reveal ==
    /\ UNCHANGED << weightedAvg, db >>
    /\ view = "session"
    /\ reveals < MaxReveals
    /\ isFlipped' = Flip(isFlipped)
    /\ reveals' = reveals + 1
    /\ UNCHANGED << store, cards, intensity, taken, queue, pc, view, session, currentIndex,
                    resultsRef, sessionResults, pending, now, calls, completed, exited,
                    failed, ignored >>

\* grades handled whichever side is showing
GradeAccepted_Always(flipped, inFlight) == TRUE

\* the keys 1-5 are handled and the buttons are rendered only if (isFlipped);
\* the writes in flight are not looked at
GradeAccepted(flipped, inFlight) == flipped

\* key 1-5 or click on a confidence button: handleGrade(score) up to its await,
\* i.e. the call updateConfidence(card.id, score) with Date.now() read at the call
PressGrade(score) ==
    /\ UNCHANGED << weightedAvg, db >>
    /\ view = "session"
    /\ IF GradeAccepted(isFlipped, pending)
       THEN /\ Len(calls) < MaxCalls
            /\ \E t \in {now, now + 1} :
                /\ now' = t
                /\ pending' = Append(pending,
                        WriteReq(Len(calls) + 1, session, currentIndex,
                                 currentIndex + 1 >= Len(queue), CurrentCard.id, score, t))
            /\ calls' = Append(calls,
                    [session |-> session, index |-> currentIndex,
                     cardId |-> CurrentCard.id, score |-> score, flipped |-> isFlipped])
            /\ UNCHANGED << store, cards, intensity, taken, queue, pc, view, session,
                            currentIndex, isFlipped, resultsRef, sessionResults,
                            completed, exited, failed, reveals, ignored >>
       ELSE /\ ignored' = TRUE
            /\ UNCHANGED << store, cards, intensity, taken, queue, pc, view, session,
                            currentIndex, isFlipped, resultsRef, sessionResults, pending,
                            now, calls, completed, exited, failed, reveals >>

\* grades that include the score of a card never graded
GradeInputs_WithZero == {0, 5}

\* the scores of the first and the last confidence button
GradeInputs == {1, 5}
Grade == \E score \in GradeInputs : PressGrade(score)

\* the row of resultsRef after handleGrade's append
AppendResult(ref, w) == Append(ref, [cardId |-> w.cardId, score |-> w.score])

\* setCurrentIndex(i => i + 1)
Advance(i) == i + 1

\* a loop that takes the graded card off the queue
QueueAfterGrade_Shift(q) == IF q = << >> THEN q ELSE Tail(q)

\* session.queue after handleGrade: it reads queue.length and writes nothing to it
QueueAfterGrade(q) == q

\* the write at the head of the queue is answered; handleGrade resumes after its await
WriteDone ==
    /\ UNCHANGED << weightedAvg, db >>
    /\ pending # << >>
    /\ Head(pending).kind = "write"
    /\ LET w == Head(pending)
           ref == AppendResult(resultsRef[w.session], w)
           mounted == view = "session" /\ session = w.session
       IN  /\ store' = updateConfidence(store, w.cardId, w.score, w.at)
           /\ resultsRef' = [resultsRef EXCEPT ![w.session] = ref]
           /\ IF w.last
              THEN \* onSessionComplete(resultsRef.current): handleSessionComplete
                   /\ completed' = Append(completed, [session |-> w.session, results |-> ref])
                   /\ pending' = Append(Tail(pending), LoadReq)
                   /\ IF view = "crashed"
                      THEN UNCHANGED << view, sessionResults, pc, currentIndex, isFlipped,
                                       reveals, ignored >>
                      ELSE \* setSession(null) unmounts the Reviewer and its state
                           /\ view' = "summary"
                           /\ sessionResults' = ref
                           /\ pc' = "idle"
                           /\ currentIndex' = 0
                           /\ isFlipped' = FALSE
                           /\ reveals' = 0
                           /\ ignored' = FALSE
              ELSE \* setCurrentIndex(i => i + 1); setIsFlipped(false); then the render
                   /\ pending' = Tail(pending)
                   /\ IF mounted
                      THEN /\ currentIndex' = Advance(currentIndex)
                           /\ isFlipped' = FALSE
                           /\ reveals' = 0
                           /\ view' = IF currentIndex' < Len(queue) THEN "session" ELSE "crashed"
                      ELSE UNCHANGED << currentIndex, isFlipped, view, reveals >>
                   /\ UNCHANGED << completed, sessionResults, pc, ignored >>
    /\ queue' = QueueAfterGrade(queue)
    /\ UNCHANGED << cards, intensity, taken, session, now, calls, exited, failed >>

\* the write at the head of the queue is rejected: the await throws and
\* handleGrade ends there
WriteFail ==
    /\ UNCHANGED << weightedAvg, db >>
    /\ pending # << >>
    /\ Head(pending).kind = "write"
    /\ failed' = failed \cup {Head(pending).call}
    /\ pending' = Tail(pending)
    /\ UNCHANGED << store, cards, intensity, taken, queue, pc, view, session, currentIndex,
                    isFlipped, resultsRef, sessionResults, now, calls, completed, exited, reveals, ignored >>

\* "End Session": onExit = () => { setSession(null); loadCards(); }
\* setSession(null) unmounts the Reviewer and its state
Exit ==
    /\ UNCHANGED << weightedAvg, db >>
    /\ view = "session"
    /\ view' = "deck"
    /\ pc' = "idle"
    /\ exited' = exited \cup {session}
    /\ pending' = Append(pending, LoadReq)
    /\ currentIndex' = 0
    /\ isFlipped' = FALSE
    /\ reveals' = 0
    /\ ignored' = FALSE
    /\ UNCHANGED << store, cards, intensity, taken, queue, session, resultsRef,
                    sessionResults, now, calls, completed, failed >>

\* the summary's onBackToDeck: setSessionResults(null)
BackToDeck ==
    /\ UNCHANGED << weightedAvg, db >>
    /\ view = "summary"
    /\ view' = "deck"
    /\ sessionResults' = << >>
    /\ UNCHANGED << store, cards, intensity, taken, queue, pc, session, currentIndex,
                    isFlipped, resultsRef, pending, now, calls, completed, exited,
                    failed, reveals, ignored >>

\* const maxIntensity = Math.min(100, Math.max(5, cards.length))
maxIntensity(n) == Min(100, Max(5, n))

\* the positions of the session-size slider: <input type="range" min={5} max={maxIntensity}>
SliderValues(n) == 5..maxIntensity(n)

\* the slider of the session launcher is moved: setIntensity(Number(e.target.value));
\* the launcher is rendered only for cards.length > 0
SetIntensity ==
    /\ view = "deck"
    /\ cards # << >>
    /\ \E v \in SliderValues(Len(cards)) : intensity' = v
    /\ UNCHANGED << store, cards, taken, queue, pc, view, session, currentIndex,
                    isFlipped, resultsRef, sessionResults, pending, now, calls, completed,
                    exited, failed, reveals, ignored, weightedAvg, db >>

\* handleDelete: await deleteCard(cardId); loadCards() -- the row is gone from
\* the table and from the list of the deck view
DeleteCard ==
    /\ view = "deck"
    /\ pending = << >>
    /\ \E k \in DOMAIN cards :
        /\ store' = [i \in DOMAIN store \ {cards[k].id} |-> store[i]]
        /\ cards' = getCardsForDeck(store')
    /\ UNCHANGED << intensity, taken, queue, pc, view, session, currentIndex,
                    isFlipped, resultsRef, sessionResults, pending, now, calls, completed,
                    exited, failed, reveals, ignored, weightedAvg, db >>

\* results.reduce((sum, r) => sum + r.score, 0)
RECURSIVE SumScores(_)
SumScores(results) ==
    IF results = << >> THEN 0 ELSE Head(results).score + SumScores(Tail(results))

\* a rounding that cuts the fraction off
RoundPercent_Floor(bits, e) == BitsToInt(SubSeq(bits, e + 1, Len(bits)))

\* Math.round(...) of the percentage
RoundPercent(bits, e) == MathRound(bits, e)

\* total > 0 ? Math.round((sum / (total * 5)) * 100) : 0
Quality(results) ==
    LET total == Len(results)
        q == Quotient(SumScores(results), total * 5)
    IN  IF total > 0
        THEN RoundPercent(RoundToDouble(MulBits(q.bits, 100, 0)), q.exp)
        ELSE 0

\* SessionSummary renders the results it was handed
RenderSummary ==
    /\ view = "summary"
    /\ weightedAvg = -1
    /\ weightedAvg' = Quality(sessionResults)
    /\ UNCHANGED << sessionVars, db >>

\* the ids the callers pass: of rows that exist or existed
GroupIds == 1..MaxGroups
DeckIds == 1..MaxDecks
CardIds == 1..MaxNotes

\* the cloze groups of a cloze note's text
ClozeGroupCounts == {0, 1, 2}
\* the value of Date.now() at an updateConfidence call
GradeTimes == {1}

CreateGroup ==
    /\ db.nextGroup <= MaxGroups
    /\ db' = createGroup(db)
    /\ UNCHANGED << sessionVars, weightedAvg >>

DeleteGroup(g) ==
    /\ db' = deleteGroup(db, g)
    /\ UNCHANGED << sessionVars, weightedAvg >>

MoveDeckToGroup(d, g) ==
    /\ db' = moveDeckToGroup(db, d, g)
    /\ UNCHANGED << sessionVars, weightedAvg >>

CreateDeck ==
    /\ db.nextDeck <= MaxDecks
    /\ db' = createDeck(db)
    /\ UNCHANGED << sessionVars, weightedAvg >>

DeleteDeck(d) ==
    /\ db' = deleteDeck(db, d)
    /\ UNCHANGED << sessionVars, weightedAvg >>

\* addCard up to the answer to its first statement, the insert of the note
\* (basic) or of the template note (cloze, with g cloze groups in its text)
StartAddCard(d, type, g) ==
    /\ db.job = NoJob
    /\ db.nextNote + (IF type = "basic" THEN 0 ELSE g) <= MaxNotes
    /\ LET t == insertNote(db, d, type)
           id == db.nextNote
       IN  db' = IF type = "cloze" /\ g = 0
                 THEN db     \* no cloze group in the text: addCard returns
                 ELSE IF id \notin DOMAIN t.notes
                 THEN t      \* the insert threw
                 ELSE IF type = "basic"
                      THEN [t EXCEPT !.job = Job(d, type, 0, 0, id)]
                      ELSE [t EXCEPT !.job = Job(d, type, id, g, 0)]
    /\ UNCHANGED << sessionVars, weightedAvg >>

\* the next statement of the addCard call: the insert of a card, the insert
\* of the note of the next cloze group, or the delete of the template note;
\* a statement that throws ends the call
AddCardStep ==
    /\ db.job # NoJob
    /\ LET j == db.job
       IN  db' =
            IF j.note # 0
            THEN LET t == insertCard(db, j.note)
                 IN  IF db.nextCard \notin DOMAIN t.cards \/ j.kind = "basic"
                     THEN [t EXCEPT !.job = NoJob]
                     ELSE [t EXCEPT !.job = Job(j.deck, j.kind, j.parent, j.left - 1, 0)]
            ELSE IF j.left > 0
                 THEN LET t == insertNote(db, j.deck, j.kind)
                      IN  IF db.nextNote \notin DOMAIN t.notes
                          THEN [t EXCEPT !.job = NoJob]
                          ELSE [t EXCEPT !.job = Job(j.deck, j.kind, j.parent, j.left,
                                                     db.nextNote)]
                 ELSE [deleteNote(db, j.parent) EXCEPT !.job = NoJob]
    /\ UNCHANGED << sessionVars, weightedAvg >>

DeleteCardNote(c) ==
    /\ db' = deleteCard(db, c)
    /\ UNCHANGED << sessionVars, weightedAvg >>

UpdateConfidence(c, score, t) ==
    /\ db' = [db EXCEPT !.cards = updateConfidence(db.cards, c, score, t)]
    /\ UNCHANGED << sessionVars, weightedAvg >>

Next == BuildSession

NextReview ==
    \/ AddCard
    \/ InsertDone
    \/ LoadDone
    \/ BuildSession
    \/ Reveal
    \/ Grade
    \/ WriteDone
    \/ WriteFail
    \/ Exit
    \/ BackToDeck

\* an empty deck on the deck view, the session size at its default
InitReview == InitWith(<< >>, DefaultIntensity)

SpecReview == InitReview /\ [][NextReview]_vars

\* the deck view of a deck of never-graded cards, the slider not yet touched
InitLauncher ==
    \E size \in 0..MaxLauncherCards : InitWith(FreshPool(size), DefaultIntensity)

NextLauncher ==
    \/ SetIntensity
    \/ DeleteCard
    \/ BuildSession

SpecLauncher == InitLauncher /\ [][NextLauncher]_vars

RECURSIVE ResultsOf(_, _)
\* the results list with hist[s] events of score s for s = from..5, lowest score first
ResultsOf(hist, from) ==
    IF from > 5 THEN << >>
    ELSE [k \in 1..hist[from] |-> [cardId |-> from, score |-> from]] \o ResultsOf(hist, from + 1)

\* the summary of a session with up to MaxSummaryEvents grade events
InitSummary ==
    \E hist \in [1..5 -> 0..MaxSummaryEvents] :
        /\ hist[1] + hist[2] + hist[3] + hist[4] + hist[5] <= MaxSummaryEvents
        /\ sessionResults = ResultsOf(hist, 1)
        /\ view = "summary"
        /\ cards = << >>
        /\ store = << >>
        /\ intensity = DefaultIntensity
        /\ taken = << << >>, << >>, << >> >>
        /\ queue = << >>
        /\ pc = "idle"
        /\ session = 0
        /\ currentIndex = 0
        /\ isFlipped = FALSE
        /\ resultsRef = << >>
        /\ pending = << >>
        /\ now = 1
        /\ calls = << >>
        /\ completed = << >>
        /\ exited = {}
        /\ failed = {}
        /\ reveals = 0
        /\ ignored = FALSE
        /\ weightedAvg = -1
        /\ db = EmptyDb

NextSummary == RenderSummary

SpecSummary == InitSummary /\ [][NextSummary]_vars

Spec == Init /\ [][Next]_vars

SpecFresh == InitFresh /\ [][Next]_vars

SpecTiers == InitTiers /\ [][Next]_vars

SpecQuota == InitQuota /\ [][Next]_vars

\* the database after initDB, the deck list on screen
InitTables == InitWith(<< >>, DefaultIntensity)

NextTables ==
    \/ CreateGroup
    \/ \E g \in GroupIds : DeleteGroup(g)
    \/ \E d \in DeckIds, g \in {0} \cup GroupIds : MoveDeckToGroup(d, g)
    \/ CreateDeck
    \/ \E d \in DeckIds : DeleteDeck(d)
    \/ \E d \in DeckIds, g \in ClozeGroupCounts : StartAddCard(d, "basic", g)
    \/ \E d \in DeckIds, g \in ClozeGroupCounts : StartAddCard(d, "cloze", g)
    \/ AddCardStep
    \/ \E c \in CardIds : DeleteCardNote(c)
    \/ \E c \in CardIds, score \in GradeInputs, t \in GradeTimes : UpdateConfidence(c, score, t)

SpecTables == InitTables /\ [][NextTables]_vars

\* ------------------------------------------------------------------------
\* Properties
\* ------------------------------------------------------------------------
\* the tiers as the design states them
TierOf(c) ==
    IF c.confidence_score \in {0, 1, 2} THEN 1
    ELSE IF c.confidence_score \in {3, 4} THEN 2
    ELSE 3

InTier(pool, k) == { j \in DOMAIN pool : TierOf(pool[j]) = k }

Elems(s) == { s[k] : k \in DOMAIN s }

\* round(num / den) with halves rounded up, in exact integer arithmetic
RoundHalfUp(num, den) == (2 * num + den) \div (2 * den)

Quota(k, n) ==
    IF k = 1 THEN RoundHalfUp(60 * n, 100)
    ELSE IF k = 2 THEN RoundHalfUp(30 * n, 100)
    ELSE RoundHalfUp(10 * n, 100)

Built == pc = "built"

\* C1: the returned queue is never longer than the requested intensity.
C1_LengthAtMostIntensity ==
    Built => Len(queue) <= intensity

\* a call whose per-tier selections exceeded the intensity and were cut back
C1_Witness ==
    /\ Built
    /\ Len(taken[1]) + Len(taken[2]) + Len(taken[3]) > intensity
    /\ Len(queue) = intensity

\* C2: every queued card is a card of the pool and no card id is queued twice.
C2_FromPoolNoDuplicates ==
    Built =>
        /\ \A k \in DOMAIN queue : queue[k] \in Elems(cards)
        /\ \A k1, k2 \in DOMAIN queue : queue[k1].id = queue[k2].id => k1 = k2

\* a call that queued several cards and left some of the pool out
C2_Witness ==
    /\ Built
    /\ Len(queue) >= 2
    /\ Len(queue) < Len(cards)
    /\ \E k \in DOMAIN queue : queue[k].confidence_score = 2

\* C3: low-tier cards come before medium-tier cards, which come before
\* mastered cards.
C3_TierOrder ==
    Built =>
        \A i, j \in DOMAIN queue : i < j => TierOf(queue[i]) <= TierOf(queue[j])

\* a queue that holds cards of all three tiers
C3_Witness ==
    /\ Built
    /\ \A k \in 1..3 : \E i \in DOMAIN queue : TierOf(queue[i]) = k

\* C4: before truncation each tier contributes min(quota, cards it holds) of
\* its own cards, the quotas being 60%, 30% and 10% of the intensity rounded
\* half up; the queue length is min(intensity, sum of the contributions).
C4_QuotasNoBorrowing ==
    Built =>
        /\ \A k \in 1..3 :
            /\ Len(taken[k]) = Min(Quota(k, intensity), Cardinality(InTier(cards, k)))
            /\ \A i \in DOMAIN taken[k] : TierOf(taken[k][i]) = k
        /\ Len(queue) = Min(intensity, Len(taken[1]) + Len(taken[2]) + Len(taken[3]))

\* a call in which one tier was short of its quota, another held more than
\* its quota, and a quota was a half rounded up
C4_Witness ==
    /\ Built
    /\ \E k \in 1..3 : Cardinality(InTier(cards, k)) < Quota(k, intensity)
    /\ \E k \in 1..3 : Cardinality(InTier(cards, k)) > Quota(k, intensity)
    /\ (30 * intensity) % 100 = 50
    /\ Len(taken[2]) = Quota(2, intensity)
    /\ Len(queue) < Len(cards)

\* C5: inside a tier's block last_seen_at never decreases, and no card the
\* quota left out was seen earlier than a card of its tier the quota selected.
C5_OldestSeenFirst ==
    Built =>
        /\ \A i, j \in DOMAIN queue :
            (i < j /\ TierOf(queue[i]) = TierOf(queue[j]))
                => queue[i].last_seen_at <= queue[j].last_seen_at
        /\ \A k \in 1..3 : \A j \in InTier(cards, k) :
            cards[j] \notin Elems(taken[k]) =>
                \A i \in DOMAIN taken[k] : cards[j].last_seen_at >= taken[k][i].last_seen_at

\* a call in which the quota left out a card that stands earlier in the pool
\* than a selected card of its tier with an older timestamp, and in which a
\* tier's block is in another order than the pool
C5_Witness ==
    /\ Built
    /\ \E j1, j2 \in DOMAIN cards :
        /\ j1 < j2
        /\ TierOf(cards[j1]) = TierOf(cards[j2])
        /\ cards[j1] \notin Elems(queue)
        /\ cards[j2] \in Elems(queue)
        /\ cards[j2].last_seen_at < cards[j1].last_seen_at
    /\ \E i, j \in DOMAIN queue :
        /\ i < j
        /\ queue[i].id > queue[j].id
        /\ queue[i].last_seen_at < queue[j].last_seen_at

Before(q, a, b) ==
    \E i, j \in DOMAIN q : i < j /\ q[i] = a /\ q[j] = b

\* C6: two cards of one tier with the same last_seen_at can come out of
\* buildSession in either relative order.
C6_TiedCardsInEitherOrder ==
    Built =>
        \A a, b \in Elems(cards) :
            ( /\ a # b
              /\ TierOf(a) = TierOf(b)
              /\ a.last_seen_at = b.last_seen_at
              /\ \E q \in BuildOutcomes(cards, intensity) : Before(q, a, b) )
            => \E q \in BuildOutcomes(cards, intensity) : Before(q, b, a)

AllFresh(pool) ==
    \A k \in DOMAIN pool : pool[k].confidence_score = 0 /\ pool[k].last_seen_at = 0

BootstrapCase == Built /\ Len(cards) = 10 /\ AllFresh(cards) /\ intensity = 10

\* C7 as stated: ten never-graded cards at intensity 10 are all queued.
C7_AllTenReturned ==
    BootstrapCase => (Len(queue) = 10 /\ Elems(queue) = Elems(cards))

\* C7: ten never-graded cards at intensity 10 yield a queue of six of them
\* (the low quota round(0.60 * 10)), none queued twice.
C7_SixOfTenReturned ==
    BootstrapCase =>
        /\ Len(queue) = 6
        /\ Elems(queue) \subseteq Elems(cards)
        /\ Cardinality(Elems(queue)) = 6

C7_Witness == BootstrapCase /\ queue # << >>

ShortTiersCase ==
    /\ Built
    /\ intensity = 10
    /\ Cardinality(InTier(cards, 1)) = 3
    /\ Cardinality(InTier(cards, 2)) = 2
    /\ Cardinality(InTier(cards, 3)) = 1

\* C8: 3 low, 2 medium and 1 mastered card at intensity 10 yield exactly
\* these six cards; the queue is not padded to 10.
C8_ShortTiersNotPadded ==
    ShortTiersCase => (Len(queue) = 6 /\ Elems(queue) = Elems(cards))

C8_Witness == ShortTiersCase /\ Len(cards) = 6 /\ cards[1].confidence_score = 5

\* C9: the call always returns a queue; it is empty for an empty pool and
\* for intensity 0, and a tier without cards contributes nothing.
C9_DegradesGracefully ==
    Built =>
        /\ queue \in Seq(Elems(cards))
        /\ cards = << >> => queue = << >>
        /\ intensity = 0 => queue = << >>
        /\ \A k \in 1..3 :
            InTier(cards, k) = {} =>
                (taken[k] = << >> /\ \A i \in DOMAIN queue : TierOf(queue[i]) # k)

\* a call at intensity 0 on a pool that has cards but none in some tier
C9_Witness ==
    /\ Built
    /\ intensity = 0
    /\ cards # << >>
    /\ \E k \in 1..3 : InTier(cards, k) = {}

\* C10: a call leaves the pool and the card store as they were.
C10_NoSideEffects ==
    [][BuildSession => (cards' = cards /\ store' = store)]_vars

\* a call whose queue is in another order than the pool it was built from
C10_Witness ==
    /\ Built
    /\ \E i, j \in DOMAIN queue : i < j /\ queue[i].id > queue[j].id
    /\ \A k \in DOMAIN cards : cards[k].id = k

\* ------------------------------------------------------------------------
\* Properties of the review loop
\* ------------------------------------------------------------------------
\* the answer to the write at the head of the queue reaches a Reviewer that is
\* still showing the session the grade was taken in
AnsweredInSession ==
    /\ view = "session"
    /\ pending # << >>
    /\ Head(pending).kind = "write"
    /\ Head(pending).session = session

\* the grade event of an updateConfidence call
EventOf(c) == [cardId |-> c.cardId, score |-> c.score]

\* the writes still in the queue
PendingWrites == { k \in DOMAIN pending : pending[k].kind = "write" }

\* the calls whose write has been carried out
Written == { n \in DOMAIN calls :
                /\ n \notin failed
                /\ \A k \in PendingWrites : pending[k].call # n }

\* C11: when the write of a grade taken at index i is carried out, the results
\* list of the session is its first i events followed by {queue[i].id, score},
\* and the loop then shows card i+1 at its front if there is one, or else the
\* session is complete with these results.
C11_GradeAppendsAndAdvances ==
    [][ (AnsweredInSession /\ WriteDone) =>
            LET w == Head(pending)
                i == w.index
            IN  /\ Len(resultsRef[session]) = i
                /\ resultsRef'[session] =
                       Append(resultsRef[session],
                              [cardId |-> queue[i + 1].id, score |-> w.score])
                /\ IF i + 1 < Len(queue)
                   THEN view' = "session" /\ currentIndex' = i + 1 /\ ~isFlipped'
                   ELSE view' = "summary" /\ sessionResults' = resultsRef'[session] ]_vars

\* C12: no queue position of a session has two writes in flight, two calls of
\* updateConfidence that were carried out, or two entries in the results list.
C12_NoDoubleGrade ==
    /\ \A k1, k2 \in PendingWrites :
        (pending[k1].session = pending[k2].session /\ pending[k1].index = pending[k2].index)
            => k1 = k2
    /\ \A n1, n2 \in DOMAIN calls :
        ( /\ calls[n1].session = calls[n2].session
          /\ calls[n1].index = calls[n2].index
          /\ n1 \notin failed
          /\ n2 \notin failed )
            => n1 = n2
    /\ \A s \in DOMAIN resultsRef : \A j1, j2 \in DOMAIN resultsRef[s] :
        resultsRef[s][j1].cardId = resultsRef[s][j2].cardId => j1 = j2

\* C13: a grade key or button used while the front of the card is showing
\* changes neither the card index nor the results list and issues no write.
C13_GradeAtFrontRejected ==
    [][ (view = "session" /\ ~isFlipped /\ Grade) =>
            /\ currentIndex' = currentIndex
            /\ resultsRef' = resultsRef
            /\ calls' = calls
            /\ pending' = pending
            /\ store' = store ]_vars

\* a session in which a grade key was pressed at the front of the first card
\* and nothing was graded
C13_Witness ==
    /\ view = "session"
    /\ ignored
    /\ ~isFlipped
    /\ currentIndex = 0
    /\ calls = << >>
    /\ resultsRef[session] = << >>
    /\ \A id \in DOMAIN store : store[id].confidence_score = 0

\* C14: for every event in the results list of the current session the store
\* holds the score of that event for its card, with a timestamp, and every
\* call of updateConfidence was an accepted grade.
C14_EventsPersisted ==
    session >= 1 =>
        /\ \A j \in DOMAIN resultsRef[session] :
            LET e == resultsRef[session][j]
            IN  /\ e.cardId \in DOMAIN store
                /\ store[e.cardId].confidence_score = e.score
                /\ store[e.cardId].last_seen_at > 0
        /\ \A n \in DOMAIN calls : calls[n].flipped

\* C15: a session that was exited is never completed: onSessionComplete is
\* not invoked for it and its summary is not shown.
C15_ExitDiscardsSession ==
    \A s \in exited :
        /\ \A k \in DOMAIN completed : completed[k].session # s
        /\ ~(view = "summary" /\ session = s)

\* C16: the results handed over at the completion of the current session hold
\* one event per card of the queue, in queue order, each with a score in 1..5.
C16_OneEventPerCard ==
    \A k \in DOMAIN completed :
        completed[k].session = session =>
            LET r == completed[k].results
            IN  /\ Len(r) = Len(queue)
                /\ \A j \in DOMAIN r :
                    /\ r[j].cardId = queue[j].id
                    /\ r[j].score \in 1..5

\* C17: onSessionComplete is invoked at most once per session, and the results
\* list of a completed session is the one that was handed over.
C17_CompletesAtMostOnce ==
    /\ \A k1, k2 \in DOMAIN completed :
        completed[k1].session = completed[k2].session => k1 = k2
    /\ \A k \in DOMAIN completed :
        resultsRef[completed[k].session] = completed[k].results

\* C18: the grade of a call of updateConfidence that was rejected is in the
\* results list of its session.
C18_FailedGradeStillRecorded ==
    \A n \in failed :
        \E j \in DOMAIN resultsRef[calls[n].session] :
            resultsRef[calls[n].session][j] = EventOf(calls[n])

\* C19 as stated: after one or more Reveals on a card its back is showing.
C19_RevealIdempotent ==
    (view = "session" /\ reveals >= 1) => isFlipped

\* C19: Reveal turns the card over: after an odd number of Reveals on a card
\* its back is showing and grades are accepted, after an even number its
\* front is showing and grades are ignored.
C19_RevealToggles ==
    view = "session" =>
        /\ isFlipped <=> (reveals % 2 = 1)
        /\ GradeAccepted(isFlipped, pending) <=> (reveals % 2 = 1)

\* a card turned over twice: its front is showing again
C19_Witness ==
    /\ view = "session"
    /\ reveals = 2
    /\ ~isFlipped

\* the store holds scores 0..5 and timestamps >= 0, and a card that has a
\* grading timestamp has a score in 1..5
StoreInRange ==
    \A id \in DOMAIN store :
        /\ store[id].confidence_score \in 0..5
        /\ store[id].last_seen_at >= 0
        /\ store[id].last_seen_at > 0 => store[id].confidence_score \in 1..5

\* no step removes a card, lowers a timestamp or takes a graded card's score
\* out of 1..5
StoreStep ==
    /\ DOMAIN store \subseteq DOMAIN store'
    /\ \A id \in DOMAIN store :
        /\ store'[id].last_seen_at >= store[id].last_seen_at
        /\ store[id].confidence_score \in 1..5 => store'[id].confidence_score \in 1..5

\* C20: every card of the store has a score in 0..5 and a timestamp >= 0;
\* over the grades of one card the timestamp never decreases, and the score of
\* a graded card stays in 1..5.
C20_StoreInvariant ==
    []StoreInRange /\ [][StoreStep]_vars

\* a card that was added with score 0 and then graded twice, the second grade
\* with another score than the first
C20_Witness ==
    \E n1, n2 \in Written :
        /\ n1 < n2
        /\ calls[n1].cardId = calls[n2].cardId
        /\ calls[n1].score # calls[n2].score
        /\ store[calls[n2].cardId].confidence_score = calls[n2].score
        /\ store[calls[n2].cardId].last_seen_at >= 1

\* ------------------------------------------------------------------------
\* Properties of the session launcher and of the summary
\* ------------------------------------------------------------------------
\* C21: the intensity handed to buildSession by a start of a session on a deck
\* that has cards is in 5..100 and not greater than the number of cards.
C21_IntensityWithinPool ==
    [][ (BuildSession /\ cards # << >>) =>
            (intensity \in 5..100 /\ intensity <= Len(cards)) ]_vars

C23_CursorInQueue ==
    /\ view # "crashed"
    /\ view = "session" => (currentIndex >= 0 /\ currentIndex < Len(queue))

\* C24: Reveal, Grade (the key or click and the continuation behind the
\* write) and Exit leave the queue and the intensity of the session as the
\* builder made them.
C24_QueueNeverChanged ==
    [][ (Reveal \/ Grade \/ WriteDone \/ WriteFail \/ Exit) =>
            (queue' = queue /\ intensity' = intensity) ]_vars

\* a session of two cards that was left after the first card was revealed
\* and graded: the queue still holds both cards in their order
C24_Witness ==
    /\ view = "deck"
    /\ session \in exited
    /\ Len(resultsRef[session]) = 1
    /\ Len(queue) = 2
    /\ queue[1].id = 1
    /\ queue[2].id = 2
    /\ queue[1].confidence_score = 0

\* C25: Reveal leaves the card index, the results list, the card store and the
\* requests to it as they were.
C25_RevealRecordsNothing ==
    [][ Reveal =>
            /\ currentIndex' = currentIndex
            /\ resultsRef' = resultsRef
            /\ store' = store
            /\ pending' = pending
            /\ calls' = calls ]_vars

\* the first card of a session turned to its back, nothing recorded
C25_Witness ==
    /\ view = "session"
    /\ reveals = 1
    /\ isFlipped
    /\ currentIndex = 0
    /\ resultsRef[session] = << >>
    /\ calls = << >>
    /\ \A id \in DOMAIN store :
        store[id].confidence_score = 0 /\ store[id].last_seen_at = 0

QuotaSum(n) == nLow(n) + nMedium(n) + nMastered(n)

SelectedCount == Len(taken[1]) + Len(taken[2]) + Len(taken[3])

\* C26: the three quotas together exceed the intensity by at most 2, and the
\* truncation removes at most 2 cards.
C26_QuotaExcessAtMostTwo ==
    Built =>
        /\ QuotaSum(intensity) <= intensity + 2
        /\ SelectedCount - Len(queue) <= 2

\* a call at intensity 5 whose quotas 3 + 2 + 1 were all filled: one card more
\* than the intensity was selected and the truncation removed it
C26_Witness ==
    /\ Built
    /\ intensity = 5
    /\ QuotaSum(intensity) = intensity + 1
    /\ SelectedCount = QuotaSum(intensity)
    /\ Len(queue) = SelectedCount - 1

\* C27: when more cards were selected than the intensity, the queue is the
\* front of low ++ medium ++ mastered: it holds every selected low-tier card,
\* and it holds a selected mastered card only if it holds every selected
\* medium-tier card.
C27_TruncatesFromTheEnd ==
    (Built /\ SelectedCount > intensity) =>
        /\ queue = SubSeq(taken[1] \o taken[2] \o taken[3], 1, Len(queue))
        /\ \A i \in DOMAIN taken[1] : taken[1][i] \in Elems(queue)
        /\ (\E i \in DOMAIN taken[2] : taken[2][i] \notin Elems(queue))
               => \A j \in DOMAIN taken[3] : taken[3][j] \notin Elems(queue)

\* a call that selected 3 low, 2 medium and 1 mastered card of a deck of 7
\* for intensity 5: the mastered card was cut off, the medium cards were kept
C27_Witness ==
    /\ Built
    /\ Len(cards) = 7
    /\ SelectedCount > intensity
    /\ Len(taken[3]) = 1
    /\ taken[3][1] \notin Elems(queue)
    /\ \A i \in DOMAIN taken[2] : taken[2][i] \in Elems(queue)
    /\ Len(taken[1]) = 3

\* ------------------------------------------------------------------------
\* The tables under updateConfidence and under the deck, card and group
\* operations (SpecTables)
\* ------------------------------------------------------------------------

\* the rows other than card c, and the note of card c, are the same before
\* and after the step
OnlyScheduleOf(c) ==
    /\ db'.groups = db.groups
    /\ db'.decks = db.decks
    /\ db'.notes = db.notes
    /\ DOMAIN db'.cards = DOMAIN db.cards
    /\ \A o \in DOMAIN db.cards :
          /\ db'.cards[o].note_id = db.cards[o].note_id
          /\ o # c => db'.cards[o] = db.cards[o]

\* C29: updateConfidence(c, score) changes only card c's confidence_score
\* and last_seen_at: every other card, every note, and the rows of decks and
\* deck groups (so every membership) are the same after the call as before.
C29_UpdateConfidenceFrame ==
    [][\A c \in CardIds, score \in GradeInputs, t \in GradeTimes :
          UpdateConfidence(c, score, t) => OnlyScheduleOf(c)]_vars

\* a graded card next to a card whose schedule is still the one it was
\* inserted with
C29_Witness ==
    \E c, o \in DOMAIN db.cards :
        /\ c # o
        /\ db.cards[c].confidence_score = 5
        /\ db.cards[c].last_seen_at = 1
        /\ db.cards[o].confidence_score = 0
        /\ db.cards[o].last_seen_at = 0

\* every card has its note, every note its deck, every grouped deck its group
ReferentialIntegrity ==
    /\ \A c \in DOMAIN db.cards : db.cards[c].note_id \in DOMAIN db.notes
    /\ \A n \in DOMAIN db.notes : db.notes[n].deck_id \in DOMAIN db.decks
    /\ \A d \in DOMAIN db.decks :
          db.decks[d].group_id = 0 \/ db.decks[d].group_id \in db.groups

\* no note of deck d and no card of such a note is left after the step
DeckContentGone(d) ==
    LET notesOf == { n \in DOMAIN db.notes : db.notes[n].deck_id = d }
        cardsOf == { c \in DOMAIN db.cards : db.cards[c].note_id \in notesOf }
    IN  /\ d \notin DOMAIN db'.decks
        /\ notesOf \cap DOMAIN db'.notes = {}
        /\ cardsOf \cap DOMAIN db'.cards = {}
        /\ \A n \in DOMAIN db'.notes : db'.notes[n].deck_id # d

\* the step removes no deck and leaves the decks of group g ungrouped
DecksUngrouped(g) ==
    /\ g \notin db'.groups
    /\ DOMAIN db'.decks = DOMAIN db.decks
    /\ \A d \in DOMAIN db.decks :
          db'.decks[d].group_id = IF db.decks[d].group_id = g THEN 0
                                  ELSE db.decks[d].group_id

====
